---- MODULE Spec2Model ----
(***************************************************************************)
(* Gallery persistence layer (services/dbService) of the AI Image Studio:  *)
(* initDB, addImageToGallery, getAllGalleryImages, deleteImageFromGallery  *)
(* on top of one IndexedDB database with one auto-increment object store.  *)
(*                                                                         *)
(* The storage engine is modelled by what IndexedDB does for the calls the *)
(* code makes: open requests are served in order, every operation runs in  *)
(* its own transaction, transactions on the one store run in creation      *)
(* order, a request reports success or error, and after a successful       *)
(* write request the transaction either commits or aborts (an abort        *)
(* reverts the records and the key generator). A reload of the page loses  *)
(* the module state and the calls in flight and keeps the database.        *)
(***************************************************************************)
EXTENDS Integers, Sequences, FiniteSets, TLC

\* ---- bounds ----
MaxInFlight == 2   \* calls whose open request or request is outstanding
MaxKey == 2        \* largest key the key generator hands out
MaxFiles == 2        \* files chosen in one file-selection event
MaxMergeCount == 8   \* merge list lengths explored
MaxParts == 2        \* parts of the content of a response candidate

\* ---- program constants ----
DB_VERSION == 1

Keys == 1..MaxKey
Data == {"A", "B"}

VARIABLES
    db,          \* module-level cached handle; 0 is undefined
    version,     \* version of the database AIImageStudioDB; 0: does not exist
    hasStore,    \* the object store 'gallery' exists
    records,     \* the records of the object store: set of [id, imageData]
    keyGen,      \* current number of the store's key generator
    openQueue,   \* calls waiting for their indexedDB.open request, in order
    nHandles,    \* connections handed out so far (handles are 1..nHandles)
    closed,      \* connections the user agent has closed abnormally
    txQueue,     \* calls whose transaction is created and whose request has
                 \* not run, in creation order
    committing,  \* the write transaction whose request has succeeded (its
                 \* promise is resolved) and whose commit is outstanding
    undo,        \* what an abort of the committing transaction restores
    hung,        \* why promises are pending that nothing will ever settle
    last,        \* the outcome the latest step delivered to a caller
    returnedIds, \* history: the ids add has resolved with
    insertOrder, \* history: ids of the present records, in insertion order
    \* ---- state of the App component (App.tsx) ----
    mode,                \* 'generate' | 'edit' | 'merge' | 'thumbnail'
    prompt,              \* "" or a non-empty text
    inputImage,          \* an image is chosen for editing
    thumbnailBackground, \* a background image is chosen
    thumbnailForeground, \* a foreground image is chosen
    mergeImages,         \* number of entries of the merge list
    mergeCountRendered,  \* mergeImages.length in the closure of the last render
    referenceImage,      \* a reference image is set
    outputImage,         \* "" is null, else the image of the last result
    isLoading,
    isEnhancing,
    error,               \* the error message is non-null
    galleryImages,       \* the displayed list: sequence of [id, imageData]
    loadGalleryPc,       \* where loadGallery of the mount effect stands
    serviceCalls,        \* Image Service calls awaited by a handler
    \* ---- one call of the Image Service (geminiService.ts) ----
    request,             \* the operation called and what it is called with
    response,            \* what the generateContent request comes back with
    result               \* what the call returned or threw

storeVars == <<db, version, hasStore, records, keyGen, openQueue, nHandles,
               closed, txQueue, committing, undo, hung, last, returnedIds,
               insertOrder>>
inputVars == <<mode, prompt, inputImage, thumbnailBackground,
               thumbnailForeground, mergeImages, mergeCountRendered,
               referenceImage>>
studioVars == <<outputImage, isLoading, isEnhancing, serviceCalls>>
galleryVars == <<galleryImages, loadGalleryPc>>
serviceVars == <<request, response, result>>
appVars == <<inputVars, studioVars, galleryVars, error, serviceVars>>

vars == <<storeVars, appVars>>

NoTx == [op |-> "none", id |-> 0, data |-> ""]
NoUndo == [records |-> {}, keyGen |-> 0, insertOrder |-> <<>>]
NoOutcome == [op |-> "none", kind |-> "none", id |-> 0, data |-> "",
              list |-> <<>>, present |-> FALSE]

\* a call of one of the four exported functions, with its argument
Call(op, s, k) == [op |-> op, data |-> s, id |-> k]

\* ---- pure helpers ----
RECURSIVE Reverse(_)
Reverse(s) == IF s = <<>> THEN <<>> ELSE Append(Reverse(Tail(s)), Head(s))

RECURSIVE SelectIds(_, _)
SelectIds(s, keep) ==
    IF s = <<>> THEN <<>>
    ELSE IF Head(s) \in keep THEN <<Head(s)>> \o SelectIds(Tail(s), keep)
         ELSE SelectIds(Tail(s), keep)

Range(s) == {s[i] : i \in 1..Len(s)}
IdsOf(recs) == {r.id : r \in recs}

\* IDBObjectStore.getAll(): every record, in ascending key order
RECURSIVE IDBGetAll(_)
IDBGetAll(recs) ==
    IF recs = {} THEN <<>>
    ELSE LET m == CHOOSE r \in recs : \A q \in recs : r.id <= q.id
         IN <<m>> \o IDBGetAll(recs \ {m})

\* IDBObjectStore.add({ imageData }) with the generated key
IDBAddUnlessStored(recs, key, s) ==
    IF \E r \in recs : r.imageData = s THEN recs
    ELSE recs \cup {[id |-> key, imageData |-> s]}
IDBAddKeyOne(recs, key, s) == recs \cup {[id |-> 1, imageData |-> s]}
IDBPutFirst(recs, key, s) ==
    {r \in recs : r.id # 1} \cup {[id |-> 1, imageData |-> s]}
IDBAdd(recs, key, s) == recs \cup {[id |-> key, imageData |-> s]}

\* IDBObjectStore.delete(id)
IDBDeleteWide(recs, k) == {r \in recs : r.id > k}
IDBDelete(recs, k) == {r \in recs : r.id # k}

\* getAllGalleryImages, request.onsuccess: the result reversed
ListResultUnreversed(recs) == IDBGetAll(recs)
ListResult(recs) == Reverse(IDBGetAll(recs))

\* deleteImageFromGallery, request.onsuccess / request.onerror
DeleteSettleStrict(ok, wasPresent) ==
    IF ok /\ wasPresent THEN "resolved" ELSE "rejected"
DeleteSettle(ok, wasPresent) == IF ok THEN "resolved" ELSE "rejected"

\* db.transaction(STORE_NAME, mode) throws InvalidStateError on a closed
\* connection and NotFoundError when the store is missing
CanCreateTx(h, storeThere) == h \notin closed /\ storeThere

\* what becomes of a call once `await initDB()` has produced handle h:
\* initDB itself resolves; the other operations create their transaction
\* and request, and an exception there leaves the outer promise unsettled
AfterInit(call, h, storeThere) ==
    IF call.op = "initDB" THEN "resolved"
    ELSE IF CanCreateTx(h, storeThere) THEN "queued"
    ELSE "hung"

\* what becomes of a call whose `await initDB()` was rejected: initDB
\* rejects; in the other operations the async executor throws and nothing
\* settles the outer promise
AfterInitFailed(call) == IF call.op = "initDB" THEN "rejected" ELSE "hung"

Outcome(call, kind, h) ==
    IF kind \in {"resolved", "rejected"}
    THEN [NoOutcome EXCEPT !.op = call.op, !.kind = kind, !.id = h]
    ELSE NoOutcome
Enqueue(q, call, pc) == IF pc = "queued" THEN Append(q, call) ELSE q
Hang(pc, cause) == IF pc = "hung" THEN hung \cup {cause} ELSE hung

InFlight == Len(openQueue) + Len(txQueue)

\* initDB with the handle cached: `if (db) return resolve(db)`
InitCached(call) ==
    LET pc == AfterInit(call, db, hasStore) IN
    /\ last' = Outcome(call, pc, db)
    /\ txQueue' = Enqueue(txQueue, call, pc)
    /\ hung' = Hang(pc, "tx")
    /\ UNCHANGED openQueue

\* initDB without a cached handle: indexedDB.open(DB_NAME, DB_VERSION)
InitOpenNoAwait(call) ==
    /\ txQueue' = IF call.op = "initDB" THEN txQueue ELSE Append(txQueue, call)
    /\ last' = NoOutcome
    /\ UNCHANGED <<openQueue, hung>>
InitOpen(call) ==
    /\ openQueue' = Append(openQueue, call)
    /\ last' = NoOutcome
    /\ UNCHANGED <<txQueue, hung>>

\* a caller invokes one of the four exported functions
Begin(call) ==
    /\ InFlight < MaxInFlight
    /\ IF db # 0 THEN InitCached(call) ELSE InitOpen(call)
    /\ UNCHANGED <<db, version, hasStore, records, keyGen, nHandles, closed,
                   committing, undo, returnedIds, insertOrder>>

\* adds whose request has not run yet (each will draw one key)
PendingAdds ==
    Cardinality({i \in 1..Len(openQueue) : openQueue[i].op = "add"})
    + Cardinality({i \in 1..Len(txQueue) : txQueue[i].op = "add"})

Call_initDB == Begin(Call("initDB", "", 0))

Call_addImageToGallery(s) ==
    /\ keyGen + PendingAdds <= MaxKey
    /\ Begin(Call("add", s, 0))

Call_getAllGalleryImages == Begin(Call("getAll", "", 0))

Call_deleteImageFromGallery(k) == Begin(Call("delete", "", k))

\* onupgradeneeded fires when the stored version is below DB_VERSION, and
\* creates the store (empty, key generator at 1) unless it is there already
StoreCreated(ver, there) == ver < DB_VERSION /\ ~there
RecordsRecreated(ver, there, recs) == {}
RecordsAfterOpen(ver, there, recs) ==
    IF StoreCreated(ver, there) THEN {} ELSE recs
KeyGenFromZero(ver, there, k) == IF StoreCreated(ver, there) THEN 0 ELSE k
KeyGenAfterOpen(ver, there, k) == IF StoreCreated(ver, there) THEN 1 ELSE k

\* the open request of the oldest waiting initDB succeeds: onupgradeneeded
\* creates the store when the database is new, then onsuccess caches the
\* connection and resolves
OpenSuccess ==
    /\ openQueue # <<>>
    /\ LET call == Head(openQueue)
           h == nHandles + 1
           storeThere == IF version < DB_VERSION THEN TRUE ELSE hasStore
           pc == AfterInit(call, h, storeThere)
       IN /\ version' = DB_VERSION
          /\ hasStore' = storeThere
          /\ nHandles' = h
          /\ db' = h
          /\ last' = Outcome(call, pc, h)
          /\ txQueue' = Enqueue(txQueue, call, pc)
          /\ hung' = Hang(pc, "tx")
    /\ records' = RecordsAfterOpen(version, hasStore, records)
    /\ keyGen' = KeyGenAfterOpen(version, hasStore, keyGen)
    /\ insertOrder' =
           SelectIds(insertOrder, IdsOf(RecordsAfterOpen(version, hasStore, records)))
    /\ openQueue' = Tail(openQueue)
    /\ UNCHANGED <<closed, committing, undo, returnedIds>>

\* the open request of the oldest waiting initDB fails: onerror rejects
OpenErrorRetry ==
    /\ openQueue # <<>>
    /\ LET call == Head(openQueue)
           pc == AfterInitFailed(call)
       IN /\ last' = Outcome(call, pc, 0)
          /\ hung' = Hang(pc, "init")
    /\ openQueue' = Append(Tail(openQueue), Head(openQueue))
    /\ UNCHANGED <<db, version, hasStore, records, keyGen, nHandles, closed,
                   txQueue, committing, undo, returnedIds, insertOrder>>
OpenError ==
    /\ openQueue # <<>>
    /\ LET call == Head(openQueue)
           pc == AfterInitFailed(call)
       IN /\ last' = Outcome(call, pc, 0)
          /\ hung' = Hang(pc, "init")
    /\ openQueue' = Tail(openQueue)
    /\ UNCHANGED <<db, version, hasStore, records, keyGen, nHandles, closed,
                   txQueue, committing, undo, returnedIds, insertOrder>>

Snapshot == [records |-> records, keyGen |-> keyGen, insertOrder |-> insertOrder]

\* the next transaction may run: the one before it is over
CanRun == txQueue # <<>> /\ committing = NoTx

\* the request of the running transaction fails: request.onerror rejects,
\* and the transaction aborts without having changed anything
RequestErrorResolvesEmpty ==
    /\ CanRun
    /\ LET call == Head(txQueue)
           kind == IF call.op = "delete"
                   THEN DeleteSettle(FALSE, call.id \in IdsOf(records))
                   ELSE IF call.op = "getAll" THEN "resolved" ELSE "rejected"
       IN last' = [NoOutcome EXCEPT !.op = call.op, !.kind = kind,
                                    !.id = call.id, !.data = call.data]
    /\ txQueue' = Tail(txQueue)
    /\ UNCHANGED <<db, version, hasStore, records, keyGen, openQueue, nHandles,
                   closed, committing, undo, hung, returnedIds, insertOrder>>
RequestError ==
    /\ CanRun
    /\ LET call == Head(txQueue)
           kind == IF call.op = "delete"
                   THEN DeleteSettle(FALSE, call.id \in IdsOf(records))
                   ELSE "rejected"
       IN last' = [NoOutcome EXCEPT !.op = call.op, !.kind = kind,
                                    !.id = call.id, !.data = call.data]
    /\ txQueue' = Tail(txQueue)
    /\ UNCHANGED <<db, version, hasStore, records, keyGen, openQueue, nHandles,
                   closed, committing, undo, hung, returnedIds, insertOrder>>

\* addImageToGallery: store.add({ imageData }) succeeds with the generated
\* key and request.onsuccess resolves with it
AddSuccess ==
    /\ CanRun
    /\ LET call == Head(txQueue)
           key == keyGen
           s == call.data
       IN /\ call.op = "add"
          /\ key <= MaxKey
          /\ key \notin IdsOf(records)
          /\ undo' = Snapshot
          /\ records' = IDBAdd(records, key, s)
          /\ keyGen' = keyGen + 1
          /\ committing' = [op |-> "add", id |-> key, data |-> s]
          /\ last' = [NoOutcome EXCEPT !.op = "add", !.kind = "resolved",
                                       !.id = key, !.data = s]
          /\ returnedIds' = returnedIds \cup {key}
          /\ insertOrder' = Append(insertOrder, key)
    /\ txQueue' = Tail(txQueue)
    /\ UNCHANGED <<db, version, hasStore, openQueue, nHandles, closed, hung>>

\* getAllGalleryImages: store.getAll() succeeds and request.onsuccess
\* resolves with the reversed result; a read-only transaction has nothing
\* left to commit
GetAllSuccess ==
    /\ CanRun
    /\ Head(txQueue).op = "getAll"
    /\ last' = [NoOutcome EXCEPT !.op = "getAll", !.kind = "resolved",
                                 !.list = ListResult(records)]
    /\ txQueue' = Tail(txQueue)
    /\ UNCHANGED <<db, version, hasStore, records, keyGen, openQueue, nHandles,
                   closed, committing, undo, hung, returnedIds, insertOrder>>

\* deleteImageFromGallery: store.delete(id) succeeds (whether or not the
\* key was there) and request.onsuccess resolves
DeleteSuccess ==
    /\ CanRun
    /\ LET call == Head(txQueue)
           k == call.id
           wasPresent == k \in IdsOf(records)
           kind == DeleteSettle(TRUE, wasPresent)
       IN /\ call.op = "delete"
          /\ undo' = Snapshot
          /\ records' = IDBDelete(records, k)
          /\ committing' = [op |-> "delete", id |-> k, data |-> ""]
          /\ last' = [NoOutcome EXCEPT !.op = "delete", !.kind = kind, !.id = k,
                                       !.present = wasPresent]
          /\ insertOrder' = SelectIds(insertOrder, IdsOf(IDBDelete(records, k)))
    /\ txQueue' = Tail(txQueue)
    /\ UNCHANGED <<db, version, hasStore, keyGen, openQueue, nHandles, closed,
                   hung, returnedIds>>

\* the transaction whose request is done commits
Commit ==
    /\ committing # NoTx
    /\ committing' = NoTx
    /\ undo' = NoUndo
    /\ last' = NoOutcome
    /\ UNCHANGED <<db, version, hasStore, records, keyGen, openQueue, nHandles,
                   closed, txQueue, hung, returnedIds, insertOrder>>

\* the transaction whose request is done fails to commit (quota, I/O): its
\* changes to the records and to the key generator are reverted; the code
\* listens to no transaction event
Abort ==
    /\ committing # NoTx
    /\ records' = undo.records
    /\ keyGen' = undo.keyGen
    /\ insertOrder' = undo.insertOrder
    /\ committing' = NoTx
    /\ undo' = NoUndo
    /\ last' = NoOutcome
    /\ UNCHANGED <<db, version, hasStore, openQueue, nHandles, closed, txQueue,
                   hung, returnedIds>>

\* the user agent closes the open connections abnormally (the data stays)
ForceClose ==
    /\ nHandles > 0
    /\ closed # 1..nHandles
    /\ openQueue = <<>>
    /\ txQueue = <<>>
    /\ committing = NoTx
    /\ closed' = 1..nHandles
    /\ last' = NoOutcome
    /\ UNCHANGED <<db, version, hasStore, records, keyGen, openQueue, nHandles,
                   txQueue, committing, undo, hung, returnedIds, insertOrder>>

\* no call of the Image Service is looked at
NoRequest == [op |-> "none", apiKey |-> TRUE, inputOk |-> TRUE]
NoResponse == [kind |-> "none", candidates |-> <<>>]
NoResult == [kind |-> "none", value |-> ""]
ServiceIdle ==
    /\ request = NoRequest
    /\ response = NoResponse
    /\ result = NoResult

\* the useState initial values of App
AppInit ==
    /\ mode = "generate"
    /\ prompt = ""
    /\ inputImage = FALSE
    /\ thumbnailBackground = FALSE
    /\ thumbnailForeground = FALSE
    /\ mergeImages = 0
    /\ mergeCountRendered = 0
    /\ referenceImage = FALSE
    /\ outputImage = ""
    /\ isLoading = FALSE
    /\ isEnhancing = FALSE
    /\ error = FALSE
    /\ galleryImages = <<>>
    /\ loadGalleryPc = "idle"
    /\ serviceCalls = <<>>
    /\ ServiceIdle

\* the page is reloaded: the module is loaded anew (db undefined), the calls
\* and connections of the old page are gone, the database stays
Reload ==
    /\ committing = NoTx
    /\ db' = 0
    /\ openQueue' = <<>>
    /\ txQueue' = <<>>
    /\ nHandles' = 0
    /\ closed' = {}
    /\ hung' = {}
    /\ last' = NoOutcome
    /\ UNCHANGED <<version, hasStore, records, keyGen, committing, undo,
                   returnedIds, insertOrder>>

StoreInit ==
    /\ db = 0
    /\ version = 0
    /\ hasStore = FALSE
    /\ records = {}
    /\ keyGen = 1
    /\ openQueue = <<>>
    /\ nHandles = 0
    /\ closed = {}
    /\ txQueue = <<>>
    /\ committing = NoTx
    /\ undo = NoUndo
    /\ hung = {}
    /\ last = NoOutcome
    /\ returnedIds = {}
    /\ insertOrder = <<>>

Init == StoreInit /\ AppInit

\* the persistence layer driven by arbitrary callers: the component is idle
Next ==
    \/ Call_initDB /\ UNCHANGED appVars
    \/ \E s \in Data : Call_addImageToGallery(s) /\ UNCHANGED appVars
    \/ Call_getAllGalleryImages /\ UNCHANGED appVars
    \/ \E k \in Keys : Call_deleteImageFromGallery(k) /\ UNCHANGED appVars
    \/ OpenSuccess /\ UNCHANGED appVars
    \/ OpenError /\ UNCHANGED appVars
    \/ RequestError /\ UNCHANGED appVars
    \/ AddSuccess /\ UNCHANGED appVars
    \/ GetAllSuccess /\ UNCHANGED appVars
    \/ DeleteSuccess /\ UNCHANGED appVars
    \/ Commit /\ UNCHANGED appVars
    \/ Abort /\ UNCHANGED appVars
    \/ ForceClose /\ UNCHANGED appVars
    \/ Reload /\ UNCHANGED appVars

Spec == Init /\ [][Next]_vars

\* the calls made one at a time, each after the one before it is over, on
\* an engine that reports no error and commits every transaction
SequentialCall ==
    /\ openQueue = <<>>
    /\ txQueue = <<>>
    /\ committing = NoTx
    /\ \/ Call_initDB
       \/ \E s \in Data : Call_addImageToGallery(s)
       \/ Call_getAllGalleryImages
       \/ \E k \in Keys : Call_deleteImageFromGallery(k)

ScenarioNext ==
    \/ SequentialCall /\ UNCHANGED appVars
    \/ OpenSuccess /\ UNCHANGED appVars
    \/ AddSuccess /\ UNCHANGED appVars
    \/ GetAllSuccess /\ UNCHANGED appVars
    \/ DeleteSuccess /\ UNCHANGED appVars
    \/ Commit /\ UNCHANGED appVars

ScenarioSpec == Init /\ [][ScenarioNext]_vars

\* ---- the App component: the gallery handlers (App.tsx) ----
Texts == {"", "p"}
Images == {"a", "b"}

\* `data:image/png;base64,${resultBase64}`
DataUrl(b) == IF b = "a" THEN "A" ELSE "B"

RECURSIVE FilterOut(_, _)
FilterOut(s, k) ==
    IF s = <<>> THEN <<>>
    ELSE IF Head(s).id = k THEN FilterOut(Tail(s), k)
         ELSE <<Head(s)>> \o FilterOut(Tail(s), k)

\* galleryImages.some(img => img.imageData === outputImage)
InGallery(imgs, s) == \E i \in 1..Len(imgs) : imgs[i].imageData = s

\* setGalleryImages(prev => [{ id: newId, imageData: outputImage }, ...prev])
SavedAppended(imgs, k, s) == Append(imgs, [id |-> k, imageData |-> s])
Saved(imgs, k, s) == <<[id |-> k, imageData |-> s]>> \o imgs

\* what the handler awaiting the promise does to galleryImages when the
\* promise settles with outcome o: loadGallery sets the list, the save
\* handler prepends the new record, the delete handler filters the id out,
\* and a rejection leaves the list alone
GalleryAfter(o, imgs) ==
    IF o.kind # "resolved" THEN imgs
    ELSE IF o.op = "getAll" THEN o.list
    ELSE IF o.op = "add" THEN Saved(imgs, o.id, o.data)
    ELSE IF o.op = "delete" THEN FilterOut(imgs, o.id)
    ELSE imgs

\* the catch block of the awaiting handler: setError(message)
ErrorAfter(o, e) == IF o.kind = "rejected" THEN TRUE ELSE e

\* loadGallery: `await initDB()`, then `await getAllGalleryImages()`
LoadAfter(o, pc) ==
    IF o.op \notin {"initDB", "getAll"} \/ o.kind = "none" THEN pc
    ELSE IF o.kind = "rejected" THEN "failed"
    ELSE IF o.op = "initDB" THEN "opened"
    ELSE "done"

\* the continuation of whichever handler awaits the promise settled by this
\* step of the persistence layer
Continue ==
    /\ galleryImages' = GalleryAfter(last', galleryImages)
    /\ error' = ErrorAfter(last', error)
    /\ loadGalleryPc' = LoadAfter(last', loadGalleryPc)

\* the mount effect: loadGallery() starts with `await initDB()`
Mount ==
    /\ loadGalleryPc = "idle"
    /\ Call_initDB
    /\ loadGalleryPc' = "init"
    /\ UNCHANGED <<inputVars, studioVars, galleryImages, error, serviceVars>>

\* loadGallery after initDB resolved: `await getAllGalleryImages()`
LoadGalleryList ==
    /\ loadGalleryPc = "opened"
    /\ Call_getAllGalleryImages
    /\ loadGalleryPc' = "list"
    /\ UNCHANGED <<inputVars, studioVars, galleryImages, error, serviceVars>>

\* the Save button, rendered when `!isLoading && outputImage`
handleSaveToGallery ==
    /\ ~isLoading
    /\ outputImage # ""
    /\ ~InGallery(galleryImages, outputImage)
    /\ Call_addImageToGallery(outputImage)
    /\ UNCHANGED appVars

\* the delete button of a displayed record
handleDeleteFromGallery(k) ==
    /\ \E i \in 1..Len(galleryImages) : galleryImages[i].id = k
    /\ k # 0
    /\ Call_deleteImageFromGallery(k)
    /\ UNCHANGED appVars

\* onChange of the prompt field
handlePromptChange(p) ==
    /\ prompt' = p
    /\ UNCHANGED <<mode, inputImage, thumbnailBackground, thumbnailForeground,
                   mergeImages, mergeCountRendered, referenceImage, studioVars,
                   galleryVars, serviceVars, error>>

\* ---- the App component: the studio handlers (App.tsx) ----
Modes == {"generate", "edit", "merge", "thumbnail"}
ImageOps == {"generateImage", "generateWithReference", "editImage",
             "mergeImages", "createThumbnail"}

Min(a, b) == IF a < b THEN a ELSE b
Max(a, b) == IF a > b THEN a ELSE b

RemoveAt(s, i) == [j \in 1..(Len(s) - 1) |-> IF j < i THEN s[j] ELSE s[j + 1]]

\* the mode buttons: setMode(m)
handleModeChange(m) ==
    /\ mode' = m
    /\ UNCHANGED <<prompt, inputImage, thumbnailBackground, thumbnailForeground,
                   mergeImages, mergeCountRendered, referenceImage, studioVars,
                   galleryVars, serviceVars, error>>

\* createInputFileHandler: a file above the size limit is refused with a
\* message, any other file replaces the current one
handleEditFileChange(tooLarge) ==
    /\ error' = tooLarge
    /\ inputImage' = IF tooLarge THEN inputImage ELSE TRUE
    /\ UNCHANGED <<mode, prompt, thumbnailBackground, thumbnailForeground,
                   mergeImages, mergeCountRendered, referenceImage, studioVars,
                   galleryVars, serviceVars>>

handleThumbnailBgChange(tooLarge) ==
    /\ error' = tooLarge
    /\ thumbnailBackground' = IF tooLarge THEN thumbnailBackground ELSE TRUE
    /\ UNCHANGED <<mode, prompt, inputImage, thumbnailForeground, mergeImages,
                   mergeCountRendered, referenceImage, studioVars, galleryVars, serviceVars>>

handleThumbnailFgChange(tooLarge) ==
    /\ error' = tooLarge
    /\ thumbnailForeground' = IF tooLarge THEN thumbnailForeground ELSE TRUE
    /\ UNCHANGED <<mode, prompt, inputImage, thumbnailBackground, mergeImages,
                   mergeCountRendered, referenceImage, studioVars, galleryVars, serviceVars>>

\* handleMergeFilesChange with the files of one selection (TRUE: above the
\* size limit): of the first min(files.length, availableSlots) files those
\* within the limit are appended; availableSlots comes from the list of
\* the render the handler was created in
MergeLimit == 6
AvailableSlots == MergeLimit - mergeCountRendered
Considered(files) == Max(0, Min(Len(files), AvailableSlots))
Accepted(files) == Cardinality({i \in 1..Considered(files) : ~files[i]})
FileSelections == UNION {[1..n -> BOOLEAN] : n \in 1..MaxFiles}

MergeFilesChange(files) ==
    /\ mergeImages + Accepted(files) <= MaxMergeCount
    /\ mergeImages' = mergeImages + Accepted(files)
    /\ error' = \/ Len(files) > AvailableSlots
                \/ \E i \in 1..Considered(files) : files[i]
    /\ UNCHANGED <<mode, prompt, inputImage, thumbnailBackground,
                   thumbnailForeground, referenceImage, studioVars, galleryVars, serviceVars>>

\* handleRemoveMergeImage of a displayed entry that is still in the list
RemoveMergeImage ==
    /\ mergeCountRendered > 0
    /\ mergeImages > 0
    /\ mergeImages' = mergeImages - 1
    /\ UNCHANGED <<mode, prompt, inputImage, thumbnailBackground,
                   thumbnailForeground, referenceImage, studioVars, galleryVars, serviceVars,
                   error>>

\* the component re-renders: the handlers see the current list
Render ==
    /\ mergeCountRendered # mergeImages
    /\ mergeCountRendered' = mergeImages
    /\ UNCHANGED <<mode, prompt, inputImage, thumbnailBackground,
                   thumbnailForeground, mergeImages, referenceImage, studioVars,
                   galleryVars, serviceVars, error>>

\* the same events, each followed by the re-render it schedules
handleMergeFilesChange(files) ==
    /\ MergeFilesChange(files)
    /\ mergeCountRendered' = mergeImages'

handleRemoveMergeImage ==
    /\ RemoveMergeImage
    /\ mergeCountRendered' = mergeImages'

\* the disabled flag of the submit button
isSubmitDisabled ==
    \/ isLoading
    \/ isEnhancing
    \/ (mode = "generate" /\ prompt = "")
    \/ (mode = "edit" /\ (prompt = "" \/ ~inputImage))
    \/ (mode = "merge" /\ (prompt = "" \/ mergeImages < 2))
    \/ (mode = "thumbnail" /\ (~thumbnailBackground \/ ~thumbnailForeground))

\* the validation of handleSubmit: the branch of the mode returns early
InputsLax == mode = "merge" /\ prompt = ""
InputsMissing ==
    \/ (mode = "generate" /\ prompt = "")
    \/ (mode = "edit" /\ (prompt = "" \/ ~inputImage))
    \/ (mode = "merge" /\ (prompt = "" \/ mergeImages < 2))
    \/ (mode = "thumbnail" /\ (~thumbnailBackground \/ ~thumbnailForeground))

\* the Image Service operation handleSubmit awaits
ServiceOf(m, ref) ==
    IF m = "generate"
    THEN IF ref THEN "generateWithReference" ELSE "generateImage"
    ELSE IF m = "edit" THEN "editImage"
    ELSE IF m = "merge" THEN "mergeImages"
    ELSE "createThumbnail"

\* handleSubmit up to its first await, or to its early return
LoadingKept(missing) == TRUE
LoadingAfterSubmit(missing) == ~missing
OutputKept(out) == out
OutputAfterSubmit(out) == ""
handleSubmit ==
    /\ isLoading' = LoadingAfterSubmit(InputsMissing)
    /\ error' = InputsMissing
    /\ outputImage' = OutputAfterSubmit(outputImage)
    /\ serviceCalls' = IF InputsMissing THEN serviceCalls
                       ELSE Append(serviceCalls, ServiceOf(mode, referenceImage))
    /\ UNCHANGED <<inputVars, isEnhancing, galleryVars, serviceVars>>

\* the awaited Image Service call returns: setOutputImage, then finally
SubmitReturns(i, b) ==
    /\ serviceCalls[i] \in ImageOps
    /\ outputImage' = DataUrl(b)
    /\ isLoading' = FALSE
    /\ serviceCalls' = RemoveAt(serviceCalls, i)
    /\ UNCHANGED <<inputVars, isEnhancing, galleryVars, serviceVars, error>>

\* the awaited Image Service call throws: catch, then finally
SubmitThrows(i) ==
    /\ serviceCalls[i] \in ImageOps
    /\ error' = TRUE
    /\ isLoading' = FALSE
    /\ serviceCalls' = RemoveAt(serviceCalls, i)
    /\ UNCHANGED <<inputVars, outputImage, isEnhancing, galleryVars, serviceVars>>

\* handleEnhancePrompt: `if (!prompt || isEnhancing || isLoading) return`
\* (the Enhance button is disabled on the same condition)
EnhanceRefusedOnEmpty == prompt = ""
EnhanceRefused == prompt = "" \/ isEnhancing \/ isLoading
handleEnhancePrompt ==
    /\ ~EnhanceRefused
    /\ isEnhancing' = TRUE
    /\ error' = FALSE
    /\ serviceCalls' = Append(serviceCalls, "enhancePrompt")
    /\ UNCHANGED <<inputVars, outputImage, isLoading, galleryVars, serviceVars>>

\* enhancePrompt returns response.text.trim(): setPrompt, then finally
EnhanceReturns(i, p) ==
    /\ serviceCalls[i] = "enhancePrompt"
    /\ prompt' = p
    /\ isEnhancing' = FALSE
    /\ serviceCalls' = RemoveAt(serviceCalls, i)
    /\ UNCHANGED <<mode, inputImage, thumbnailBackground, thumbnailForeground,
                   mergeImages, mergeCountRendered, referenceImage, outputImage,
                   isLoading, galleryVars, serviceVars, error>>

\* enhancePrompt throws: catch, then finally
EnhanceThrows(i) ==
    /\ serviceCalls[i] = "enhancePrompt"
    /\ error' = TRUE
    /\ isEnhancing' = FALSE
    /\ serviceCalls' = RemoveAt(serviceCalls, i)
    /\ UNCHANGED <<inputVars, outputImage, isLoading, galleryVars, serviceVars>>

\* "Use as reference" of a displayed record
handleSetReference ==
    /\ galleryImages # <<>>
    /\ referenceImage' = TRUE
    /\ mode' = "generate"
    /\ UNCHANGED <<prompt, inputImage, thumbnailBackground, thumbnailForeground,
                   mergeImages, mergeCountRendered, studioVars, galleryVars, serviceVars,
                   error>>

handleClearReference ==
    /\ referenceImage
    /\ referenceImage' = FALSE
    /\ UNCHANGED <<mode, prompt, inputImage, thumbnailBackground,
                   thumbnailForeground, mergeImages, mergeCountRendered,
                   studioVars, galleryVars, serviceVars, error>>

\* "Edit" of a displayed record: dataUrlToFile gives the file or throws
handleUseFromGalleryForEdit(ok) ==
    /\ galleryImages # <<>>
    /\ mode' = IF ok THEN "edit" ELSE mode
    /\ inputImage' = IF ok THEN TRUE ELSE inputImage
    /\ error' = ~ok
    /\ UNCHANGED <<prompt, thumbnailBackground, thumbnailForeground,
                   mergeImages, mergeCountRendered, referenceImage, studioVars,
                   galleryVars, serviceVars>>

\* ---- the gallery of the running application ----
\* a step of the persistence layer, with the continuation of the handler
\* that awaits the promise it settles
StoreStep ==
    \/ /\ OpenSuccess
       /\ Continue
       /\ UNCHANGED <<inputVars, studioVars, serviceVars>>
    \/ /\ OpenError
       /\ Continue
       /\ UNCHANGED <<inputVars, studioVars, serviceVars>>
    \/ /\ RequestError
       /\ Continue
       /\ UNCHANGED <<inputVars, studioVars, serviceVars>>
    \/ /\ AddSuccess
       /\ Continue
       /\ UNCHANGED <<inputVars, studioVars, serviceVars>>
    \/ /\ GetAllSuccess
       /\ Continue
       /\ UNCHANGED <<inputVars, studioVars, serviceVars>>
    \/ /\ DeleteSuccess
       /\ Continue
       /\ UNCHANGED <<inputVars, studioVars, serviceVars>>
    \/ /\ Commit
       /\ Continue
       /\ UNCHANGED <<inputVars, studioVars, serviceVars>>
    \/ /\ Abort
       /\ Continue
       /\ UNCHANGED <<inputVars, studioVars, serviceVars>>

\* no call of the persistence layer is on its way
Quiescent == openQueue = <<>> /\ txQueue = <<>> /\ committing = NoTx

\* the mount effect has run, and loadGallery is not between its two awaits
\* (the continuation of an await runs before any other event is handled)
Interactive == loadGalleryPc \notin {"idle", "opened"}

\* a step of the component alone settles no promise of the persistence layer
StoreAutoSave == Call_addImageToGallery("A")
StoreIdle ==
    /\ last' = NoOutcome
    /\ UNCHANGED <<db, version, hasStore, records, keyGen, openQueue, nHandles,
                   closed, txQueue, committing, undo, hung, returnedIds,
                   insertOrder>>

\* the user produces an output image: prompt, submit, and the completion
\* of the awaited service call
OutputStep ==
    \/ /\ \E p \in Texts : handlePromptChange(p)
       /\ StoreIdle
    \/ /\ ~isSubmitDisabled /\ handleSubmit
       /\ StoreIdle
    \/ /\ \E i \in 1..Len(serviceCalls), b \in Images : SubmitReturns(i, b)
       /\ StoreIdle
    \/ /\ \E i \in 1..Len(serviceCalls) : SubmitThrows(i)
       /\ StoreIdle

\* an event of the user interface, or the completion of a service call
StudioStep ==
    \/ /\ \E p \in Texts : handlePromptChange(p)
       /\ StoreIdle
    \/ /\ \E m \in Modes : handleModeChange(m)
       /\ StoreIdle
    \/ /\ \E big \in BOOLEAN : handleEditFileChange(big)
       /\ StoreIdle
    \/ /\ \E big \in BOOLEAN : handleThumbnailBgChange(big)
       /\ StoreIdle
    \/ /\ \E big \in BOOLEAN : handleThumbnailFgChange(big)
       /\ StoreIdle
    \/ /\ \E files \in FileSelections : handleMergeFilesChange(files)
       /\ StoreIdle
    \/ /\ handleRemoveMergeImage
       /\ StoreIdle
    \/ /\ ~isSubmitDisabled /\ handleSubmit
       /\ StoreIdle
    \/ /\ \E i \in 1..Len(serviceCalls), b \in Images : SubmitReturns(i, b)
       /\ StoreIdle
    \/ /\ \E i \in 1..Len(serviceCalls) : SubmitThrows(i)
       /\ StoreIdle
    \/ /\ handleEnhancePrompt
       /\ StoreIdle
    \/ /\ \E i \in 1..Len(serviceCalls), p \in Texts : EnhanceReturns(i, p)
       /\ StoreIdle
    \/ /\ \E i \in 1..Len(serviceCalls) : EnhanceThrows(i)
       /\ StoreIdle
    \/ /\ handleSetReference
       /\ StoreIdle
    \/ /\ handleClearReference
       /\ StoreIdle
    \/ /\ \E ok \in BOOLEAN : handleUseFromGalleryForEdit(ok)
       /\ StoreIdle

GalleryNext ==
    \/ Mount
    \/ LoadGalleryList
    \/ Interactive /\ handleSaveToGallery
    \/ Interactive /\ \E k \in Keys : handleDeleteFromGallery(k)
    \/ Interactive /\ StoreStep
    \/ Interactive /\ OutputStep

GallerySpec == Init /\ [][GalleryNext]_vars

\* the same on an engine that reports no error and commits every transaction
SoundStoreStep ==
    \/ /\ OpenSuccess
       /\ Continue
       /\ UNCHANGED <<inputVars, studioVars, serviceVars>>
    \/ /\ AddSuccess
       /\ Continue
       /\ UNCHANGED <<inputVars, studioVars, serviceVars>>
    \/ /\ GetAllSuccess
       /\ Continue
       /\ UNCHANGED <<inputVars, studioVars, serviceVars>>
    \/ /\ DeleteSuccess
       /\ Continue
       /\ UNCHANGED <<inputVars, studioVars, serviceVars>>
    \/ /\ Commit
       /\ Continue
       /\ UNCHANGED <<inputVars, studioVars, serviceVars>>

\* the page is reloaded: the component starts anew on the same database
PageReload ==
    /\ Reload
    /\ mode' = "generate"
    /\ prompt' = ""
    /\ inputImage' = FALSE
    /\ thumbnailBackground' = FALSE
    /\ thumbnailForeground' = FALSE
    /\ mergeImages' = 0
    /\ mergeCountRendered' = 0
    /\ referenceImage' = FALSE
    /\ outputImage' = ""
    /\ isLoading' = FALSE
    /\ isEnhancing' = FALSE
    /\ error' = FALSE
    /\ galleryImages' = <<>>
    /\ loadGalleryPc' = "idle"
    /\ serviceCalls' = <<>>
    /\ UNCHANGED serviceVars

CoherentNext ==
    \/ Mount
    \/ PageReload
    \/ LoadGalleryList
    \/ Interactive /\ handleSaveToGallery
    \/ Interactive /\ \E k \in Keys : handleDeleteFromGallery(k)
    \/ Interactive /\ SoundStoreStep
    \/ Interactive /\ OutputStep

CoherentSpec == Init /\ [][CoherentNext]_vars

\* the mount effect has loaded a gallery of one record, saved in an
\* earlier session
LoadedStore ==
    /\ db = 1
    /\ version = DB_VERSION
    /\ hasStore = TRUE
    /\ records = {[id |-> 1, imageData |-> "A"]}
    /\ keyGen = 2
    /\ openQueue = <<>>
    /\ nHandles = 1
    /\ closed = {}
    /\ txQueue = <<>>
    /\ committing = NoTx
    /\ undo = NoUndo
    /\ hung = {}
    /\ last = NoOutcome
    /\ returnedIds = {1}
    /\ insertOrder = <<1>>
    /\ galleryImages = <<[id |-> 1, imageData |-> "A"]>>
    /\ loadGalleryPc = "done"
    /\ ServiceIdle

\* the component right after that load
GalleryLoaded ==
    /\ LoadedStore
    /\ mode = "generate"
    /\ prompt = ""
    /\ inputImage = FALSE
    /\ thumbnailBackground = FALSE
    /\ thumbnailForeground = FALSE
    /\ mergeImages = 0
    /\ mergeCountRendered = 0
    /\ referenceImage = FALSE
    /\ outputImage = ""
    /\ isLoading = FALSE
    /\ isEnhancing = FALSE
    /\ error = FALSE
    /\ serviceCalls = <<>>

\* the studio alone: the events of the user interface and the completions
\* of the service calls, the gallery untouched
StudioNext == StudioStep

StudioSpec == GalleryLoaded /\ [][StudioNext]_vars

\* handleSubmit invoked whatever the inputs are (the validation of the
\* handler is reached), one run at a time
SubmitCompletes ==
    \/ /\ \E i \in 1..Len(serviceCalls), b \in Images : SubmitReturns(i, b)
       /\ StoreIdle
    \/ /\ \E i \in 1..Len(serviceCalls) : SubmitThrows(i)
       /\ StoreIdle

HandlerStep ==
    \/ /\ \E p \in Texts : handlePromptChange(p)
       /\ StoreIdle
    \/ /\ \E m \in Modes : handleModeChange(m)
       /\ StoreIdle
    \/ /\ \E big \in BOOLEAN : handleEditFileChange(big)
       /\ StoreIdle
    \/ /\ \E big \in BOOLEAN : handleThumbnailBgChange(big)
       /\ StoreIdle
    \/ /\ \E big \in BOOLEAN : handleThumbnailFgChange(big)
       /\ StoreIdle
    \/ /\ \E files \in FileSelections : handleMergeFilesChange(files)
       /\ StoreIdle
    \/ /\ handleRemoveMergeImage
       /\ StoreIdle
    \/ /\ ~isLoading /\ ~isEnhancing /\ handleSubmit
       /\ StoreIdle
    \/ /\ handleEnhancePrompt
       /\ StoreIdle
    \/ /\ \E i \in 1..Len(serviceCalls), p \in Texts : EnhanceReturns(i, p)
       /\ StoreIdle
    \/ /\ \E i \in 1..Len(serviceCalls) : EnhanceThrows(i)
       /\ StoreIdle
    \/ /\ handleSetReference
       /\ StoreIdle
    \/ /\ handleClearReference
       /\ StoreIdle
    \/ /\ \E ok \in BOOLEAN : handleUseFromGalleryForEdit(ok)
       /\ StoreIdle

HandlerNext ==
    \/ HandlerStep
    \/ SubmitCompletes

HandlerSpec == GalleryLoaded /\ [][HandlerNext]_vars

\* the same, the awaited Image Service call eventually returning or throwing
HandlerFairSpec == HandlerSpec /\ WF_vars(SubmitCompletes)

\* handleSubmit alone, run on every combination of inputs the user can
\* have left, with or without an output shown
SubmitInit ==
    /\ LoadedStore
    /\ mode \in Modes
    /\ prompt \in Texts
    /\ inputImage \in BOOLEAN
    /\ thumbnailBackground \in BOOLEAN
    /\ thumbnailForeground \in BOOLEAN
    /\ mergeImages \in 0..MaxFiles
    /\ mergeCountRendered = mergeImages
    /\ referenceImage \in BOOLEAN
    /\ outputImage \in {""} \cup {DataUrl(b) : b \in Images}
    /\ isLoading = FALSE
    /\ isEnhancing = FALSE
    /\ error = FALSE
    /\ serviceCalls = <<>>

SubmitNext ==
    \/ ~isLoading /\ handleSubmit /\ StoreIdle
    \/ SubmitCompletes

SubmitSpec == SubmitInit /\ [][SubmitNext]_vars

\* the gallery and the studio together on the same engine, the gallery
\* operations issued one at a time; the files of the thumbnail mode and two
\* files of the merge mode are chosen already
FilesChosen ==
    /\ StoreInit
    /\ mode = "generate"
    /\ prompt = ""
    /\ inputImage = FALSE
    /\ thumbnailBackground = TRUE
    /\ thumbnailForeground = TRUE
    /\ mergeImages = 2
    /\ mergeCountRendered = 2
    /\ referenceImage = FALSE
    /\ outputImage = ""
    /\ isLoading = FALSE
    /\ isEnhancing = FALSE
    /\ error = FALSE
    /\ galleryImages = <<>>
    /\ loadGalleryPc = "idle"
    /\ serviceCalls = <<>>
    /\ ServiceIdle

AppStep ==
    \/ /\ \E p \in Texts : handlePromptChange(p)
       /\ StoreIdle
    \/ /\ \E m \in Modes : handleModeChange(m)
       /\ StoreIdle
    \/ /\ ~isSubmitDisabled /\ handleSubmit
       /\ StoreIdle
    \/ /\ \E i \in 1..Len(serviceCalls), b \in Images : SubmitReturns(i, b)
       /\ StoreIdle
    \/ /\ \E i \in 1..Len(serviceCalls) : SubmitThrows(i)
       /\ StoreIdle
    \/ /\ handleEnhancePrompt
       /\ StoreIdle
    \/ /\ \E i \in 1..Len(serviceCalls), p \in Texts : EnhanceReturns(i, p)
       /\ StoreIdle
    \/ /\ \E i \in 1..Len(serviceCalls) : EnhanceThrows(i)
       /\ StoreIdle
    \/ /\ handleSetReference
       /\ StoreIdle
    \/ /\ handleClearReference
       /\ StoreIdle
    \/ /\ \E ok \in BOOLEAN : handleUseFromGalleryForEdit(ok)
       /\ StoreIdle

AppNext ==
    \/ Mount
    \/ LoadGalleryList
    \/ Interactive /\ Quiescent /\ handleSaveToGallery
    \/ Interactive /\ Quiescent /\ \E k \in Keys : handleDeleteFromGallery(k)
    \/ Interactive /\ SoundStoreStep
    \/ Interactive /\ AppStep

AppSpec == FilesChosen /\ [][AppNext]_vars

\* the merge list alone: file selections and removals, and the re-renders
\* that give the handlers the current list
MergeNext ==
    \/ \E files \in FileSelections :
           MergeFilesChange(files) /\ UNCHANGED <<mergeCountRendered, storeVars>>
    \/ RemoveMergeImage /\ UNCHANGED <<mergeCountRendered, storeVars>>
    \/ Render /\ UNCHANGED storeVars

MergeSpec == Init /\ [][MergeNext]_vars

\* ---- the Image Service (geminiService.ts) ----
\* a part of the content of a candidate: a text part, or an inline-data part
\* whose data (optional in the type of the SDK) is set, empty or missing
TextPart == [inlineData |-> FALSE, data |-> "undefined"]
InlineParts == [inlineData : {TRUE}, data : Images \cup {"", "undefined"}]
Parts == {TextPart} \cup InlineParts
PartLists == UNION {[1..n -> Parts] : n \in 0..MaxParts}

\* a candidate, with or without parts in its content
Candidates == [hasParts : {TRUE}, parts : PartLists]
                  \cup {[hasParts |-> FALSE, parts |-> <<>>]}

\* the generateContent request is rejected, or resolves with a response
\* without candidates, with an empty list of them, or with one candidate
Responses ==
    {[kind |-> "rejected", candidates |-> <<>>],
     [kind |-> "noCandidates", candidates |-> <<>>],
     [kind |-> "candidates", candidates |-> <<>>]}
        \cup {[kind |-> "candidates", candidates |-> <<c>>] : c \in Candidates}

Requests == [op : ImageOps, apiKey : BOOLEAN, inputOk : BOOLEAN]

Returned(v) == [kind |-> "returned", value |-> v]
Thrown == [kind |-> "threw", value |-> "Error"]

\* for (const part of parts) if (part.inlineData) return part.inlineData.data
RECURSIVE FirstInlineData(_)
FirstInlineData(parts) ==
    IF parts = <<>> THEN Thrown
    ELSE IF Head(parts).inlineData THEN Returned(Head(parts).data)
    ELSE FirstInlineData(Tail(parts))

\* the try block after the request: candidates[0] of an empty list and the
\* missing parts end in the throw or in a TypeError, which the catch block
\* replaces by an Error
ImageOf(resp) ==
    IF resp.kind # "candidates" THEN Thrown
    ELSE IF resp.candidates = <<>> THEN Thrown
    ELSE IF ~Head(resp.candidates).hasParts THEN Thrown
    ELSE FirstInlineData(Head(resp.candidates).parts)

\* the operations that read a file or parse a data URL before the request
ReadsInput(op) == op # "generateImage"

\* one operation from its call to its return or throw: getGenAI throws
\* without the API key; reading the input may fail inside the try block
ServiceCall(op) ==
    /\ request.op = op
    /\ result = NoResult
    /\ result' = IF ~request.apiKey THEN Thrown
                 ELSE IF ReadsInput(op) /\ ~request.inputOk THEN Thrown
                 ELSE ImageOf(response)
    /\ UNCHANGED <<storeVars, inputVars, studioVars, galleryVars, error,
                   request, response>>

generateImage == ServiceCall("generateImage")
generateWithReference == ServiceCall("generateWithReference")
editImage == ServiceCall("editImage")
createThumbnail == ServiceCall("createThumbnail")
mergeImagesService == ServiceCall("mergeImages")

ServiceInit ==
    /\ StoreInit
    /\ mode = "generate"
    /\ prompt = ""
    /\ inputImage = FALSE
    /\ thumbnailBackground = FALSE
    /\ thumbnailForeground = FALSE
    /\ mergeImages = 0
    /\ mergeCountRendered = 0
    /\ referenceImage = FALSE
    /\ outputImage = ""
    /\ isLoading = FALSE
    /\ isEnhancing = FALSE
    /\ error = FALSE
    /\ galleryImages = <<>>
    /\ loadGalleryPc = "idle"
    /\ serviceCalls = <<>>
    /\ request \in Requests
    /\ response \in Responses
    /\ result = NoResult

ServiceNext ==
    \/ generateImage
    \/ generateWithReference
    \/ editImage
    \/ createThumbnail
    \/ mergeImagesService

ServiceSpec == ServiceInit /\ [][ServiceNext]_vars

TypeOK ==
    /\ db \in 0..nHandles
    /\ records \subseteq [id : Keys, imageData : Data]
    /\ keyGen \in 1..(MaxKey + 1)
    /\ InFlight <= MaxInFlight
    /\ hung \subseteq {"init", "tx"}
    /\ last.kind \in {"none", "resolved", "rejected"}

\* ---- helpers of the properties ----
Delivers(op, kind) == last'.op = op /\ last'.kind = kind

\* the present records in the order they were inserted
InsertedRecords ==
    [i \in 1..Len(insertOrder) |-> CHOOSE r \in records : r.id = insertOrder[i]]

Others(recs, k) == {r \in recs : r.id # k}
WithId(s, k) == {i \in 1..Len(s) : s[i].id = k}

\* C1: every id add resolves with differs from every id an earlier add
\* resolved with, whether or not that record has been removed since.
C1_IdNeverReused ==
    [][Delivers("add", "resolved") => last'.id \notin returnedIds]_vars

\* C2: getAllGalleryImages resolves with exactly the records of the
\* collection, newest first: the reverse of their insertion order.
C2_NewestFirst ==
    (last.op = "getAll" /\ last.kind = "resolved") =>
        /\ last.list = Reverse(InsertedRecords)
        /\ Range(last.list) = records
        /\ Len(last.list) = Cardinality(records)

C2_Witness ==
    /\ last.op = "getAll"
    /\ last.kind = "resolved"
    /\ Len(last.list) = 2
    /\ last.list[1].id = 2
    /\ last.list[2].id = 1
    /\ last.list[1].imageData # last.list[2].imageData

\* C3: once add(s) has resolved with id k and its transaction is over, the
\* listing (what a following getAllGalleryImages resolves with) holds
\* exactly one record of id k, and that record's imageData is s.
C3_RoundTrip ==
    [][(committing.op = "add" /\ committing' = NoTx) =>
          LET l == ListResult(records')
          IN /\ Cardinality(WithId(l, committing.id)) = 1
             /\ \A i \in WithId(l, committing.id) : l[i].imageData = committing.data]_vars

\* C4: once remove(id) has resolved and its transaction is over, the
\* listing (what a following getAllGalleryImages resolves with) holds no
\* record of that id.
C4_AbsentAfterRemove ==
    [][(committing.op = "delete" /\ committing' = NoTx) =>
          WithId(ListResult(records'), committing.id) = {}]_vars

\* C5: a delete request the engine runs resolves whether or not the id is
\* present, and on an absent id (never inserted, or removed before) it
\* leaves the collection as it was: removing twice equals removing once.
C5_RemoveIdempotent ==
    (last.op = "delete" /\ committing.op = "delete") =>
        /\ last.kind = "resolved"
        /\ last.id \notin IdsOf(records)
        /\ (last.id \notin IdsOf(undo.records) => records = undo.records)

C5_Witness ==
    /\ last.op = "delete"
    /\ last.kind = "resolved"
    /\ ~last.present
    /\ last.id \in returnedIds
    /\ records # {}

C7_FailureRejects == hung = {}

\* C8: when the engine has reported on every open and on every request
\* (nothing is outstanding), every call that was made has settled.
C8_SettlesOnce == Quiescent => Cardinality(hung) = 0

\* C9: initialize calls made before the first one completes open the
\* database once: no two open requests are outstanding together, and no
\* second handle is created.
C9_SingleOpen == Len(openQueue) <= 1 /\ nHandles <= 1

\* C10: once a handle is cached it is never cleared or replaced for as long
\* as the page lives, and no later initialize opens the database again.
C10_HandleMemoized ==
    [][(db # 0 /\ nHandles' >= nHandles) =>
          (db' = db /\ Len(openQueue') <= Len(openQueue))]_vars

\* C11: add, listAll and remove need no initDB call of their caller: the
\* call whose own open request succeeds goes on to its transaction, and a
\* transaction exists only on a handle that was opened successfully (the
\* database at DB_VERSION with its store).
C11_LazyInit ==
    /\ []((txQueue # <<>> \/ committing # NoTx) =>
            (db \in 1..nHandles /\ version = DB_VERSION /\ hasStore))
    /\ [][(openQueue # <<>> /\ db' # db /\ db' # 0
                /\ Head(openQueue).op # "initDB") =>
              txQueue' = Append(txQueue, Head(openQueue))]_vars

C11_Witness ==
    /\ nHandles = 1
    /\ db = 1
    /\ Len(txQueue) = 1
    /\ Head(txQueue).op = "add"
    /\ Len(openQueue) = 1
    /\ Head(openQueue).op = "delete"
    /\ returnedIds = {}

\* C12: when the open request of an initDB call fails, the call is rejected,
\* no further open request is made for it, and the failure caches no
\* handle and creates neither a connection nor the database.
C12_OpenFailure ==
    [][Delivers("initDB", "rejected") =>
          /\ openQueue' = Tail(openQueue)
          /\ db' = db
          /\ nHandles' = nHandles
          /\ version' = version]_vars

C12_Witness ==
    /\ last.op = "initDB"
    /\ last.kind = "rejected"
    /\ db = 0
    /\ version = 0
    /\ openQueue = <<>>

\* C13: when the transaction of an add ends without committing (the record
\* is not in the collection afterwards), the add is rejected.
C13_AddFailsWithoutCommit ==
    [][(committing.op = "add" /\ committing' = NoTx
            /\ committing.id \notin IdsOf(records')) =>
          Delivers("add", "rejected")]_vars

\* C14: with another add or remove in flight, every add and remove that has resolved
\* takes effect as a whole on the collection the transaction before it
\* left (the final collection is that of the calls run one after the other
\* in transaction order), and the key generator ends beyond the id an add
\* returned, so no add in flight with it returns the same id.
C14_Serializable ==
    [][(committing # NoTx /\ committing' = NoTx
            /\ \E i \in 1..Len(txQueue) : txQueue[i].op \in {"add", "delete"}) =>
          IF committing.op = "add"
          THEN /\ records' = IDBAdd(undo.records, committing.id, committing.data)
               /\ keyGen' > committing.id
          ELSE records' = IDBDelete(undo.records, committing.id)]_vars

C16_FailedListReturnsNothing ==
    [][last'.op = "getAll" =>
          /\ txQueue' = Tail(txQueue)
          /\ openQueue' = openQueue
          /\ records' = records
          /\ \/ last'.kind = "resolved" /\ last'.list = ListResult(records)
             \/ last'.kind = "rejected" /\ last'.list = <<>>]_vars

C16_Witness ==
    /\ last.op = "getAll"
    /\ last.kind = "rejected"
    /\ last.list = <<>>
    /\ Cardinality(records) = 2
    /\ txQueue = <<>>

\* the collection as committed: the records without the changes of the
\* transaction whose commit is outstanding
Committed == IF committing = NoTx THEN records ELSE undo.records

\* C17: a record of the collection keeps its imageData for as long as its
\* id is in the collection, and it leaves the collection only in the step
\* that commits a remove of its own id.
C17_NeverMutated ==
    [][\A r \in Committed :
          \/ r \in Committed'
          \/ /\ r.id \notin IdsOf(Committed')
             /\ committing.op = "delete"
             /\ committing.id = r.id
             /\ committing' = NoTx]_vars

C17_Witness ==
    /\ committing = NoTx
    /\ IdsOf(records) = {2}
    /\ returnedIds = {1, 2}
    /\ last.op = "getAll"
    /\ last.kind = "resolved"
    /\ Len(last.list) = 1

\* C18: the collection never holds two records of the same id.
C18_OneRecordPerId ==
    \A r, q \in records : r.id = q.id => r = q

C18_Witness ==
    /\ committing.op = "add"
    /\ committing.id = 2
    /\ IdsOf(records) = {1, 2}
    /\ Cardinality(records) = 2

\* C19: an add of an imageData the collection already holds, once its
\* request succeeds, resolves with an id no record has and leaves the
\* collection with exactly one record more: the new id with that imageData
\* beside the record that held it already.
C19_NoDedupe ==
    [][(Delivers("add", "resolved")
            /\ \E r \in records : r.imageData = last'.data) =>
          /\ last'.id \notin IdsOf(records)
          /\ records' = records \cup {[id |-> last'.id, imageData |-> last'.data]}
          /\ Cardinality(records') = Cardinality(records) + 1]_vars

C19_Witness ==
    /\ last.op = "add"
    /\ last.kind = "resolved"
    /\ last.id = 2
    /\ records = {[id |-> 1, imageData |-> last.data],
                  [id |-> 2, imageData |-> last.data]}

\* C20: on a store created empty, with the calls made one after the other
\* and no failure: a listing before any add is empty; the n-th add returns
\* n (the first 1, the second 2); the listing of the two records is the
\* second followed by the first; remove(1) leaves only the record of id 2;
\* a remove of an absent id resolves and leaves the collection, hence the
\* listing, as it was.
C20_ReferenceScenario ==
    /\ (last.op = "getAll" /\ keyGen = 1) =>
           (last.kind = "resolved" /\ last.list = <<>>)
    /\ last.op = "add" =>
           /\ last.kind = "resolved"
           /\ last.id = Cardinality(returnedIds)
           /\ returnedIds = 1..last.id
    /\ (last.op = "getAll" /\ IdsOf(records) = {1, 2}) =>
           /\ Len(last.list) = 2
           /\ last.list[1].id = 2
           /\ last.list[2].id = 1
           /\ Range(last.list) = records
    /\ (last.op = "delete" /\ last.id = 1 /\ IdsOf(undo.records) = {1, 2}) =>
           (last.kind = "resolved" /\ records = {r \in undo.records : r.id = 2})
    /\ (last.op = "delete" /\ ~last.present) =>
           /\ last.kind = "resolved"
           /\ records = undo.records
           /\ ListResult(records) = ListResult(undo.records)

C20_Witness ==
    /\ last.op = "delete"
    /\ last.kind = "resolved"
    /\ last.id = 1
    /\ ~last.present
    /\ returnedIds = {1, 2}
    /\ IdsOf(records) = {2}
    /\ hung = {}

\* ---- helpers of the controller properties ----
\* the add calls for image s that have not run their request yet
AddsAwaited(oq, tq, s) ==
    Cardinality({i \in 1..Len(oq) : oq[i].op = "add" /\ oq[i].data = s})
    + Cardinality({i \in 1..Len(tq) : tq[i].op = "add" /\ tq[i].data = s})

\* this step calls addImageToGallery(s)
CallsAdd(s) ==
    AddsAwaited(openQueue', txQueue', s) > AddsAwaited(openQueue, txQueue, s)

\* C21: the controller suppresses duplicate saves: whenever it calls add
\* with image s, no record of the collection holds s and no earlier add of
\* s is still on its way (two saves of one output before the first add
\* completed included).
C21_NoDuplicateSave ==
    [][\A s \in Data :
          CallsAdd(s) =>
              /\ ~ \E r \in records : r.imageData = s
              /\ AddsAwaited(openQueue, txQueue, s) = 0]_vars


\* this step is the failure of a gallery operation: the open request of
\* its initDB fails, its request fails, or its transaction aborts
GalleryOpFails ==
    \/ openQueue # <<>> /\ openQueue' = Tail(openQueue) /\ nHandles' = nHandles
    \/ last'.kind = "rejected"
    \/ committing # NoTx /\ committing' = NoTx /\ records' # records

\* C22: when a gallery operation (initial load, save, delete) fails, the
\* controller sets the error message and the displayed list stays as it was.
C22_FailureShown ==
    [][GalleryOpFails => (error' /\ galleryImages' = galleryImages)]_vars

\* C23: a record is created only by the explicit save: a step that calls
\* add is handleSaveToGallery acting on the output shown (nothing of the
\* component changes in it), and a record appears only when the request of
\* such a call runs; submitting, enhancing, loading, deleting, setting a
\* reference and using an image for editing call no add.
C23_OnlySaveAdds ==
    [][/\ \A s \in Data :
             CallsAdd(s) =>
                 /\ s = outputImage
                 /\ ~isLoading
                 /\ UNCHANGED appVars
       /\ (records' \ records # {} =>
               /\ txQueue # <<>>
               /\ Head(txQueue).op = "add"
               /\ UNCHANGED <<inputVars, studioVars, serviceVars>>)]_vars

C23_Witness ==
    /\ Cardinality(records) = 1
    /\ referenceImage
    /\ inputImage
    /\ mode = "thumbnail"
    /\ outputImage # ""
    /\ AddsAwaited(openQueue, txQueue, outputImage) = 1

\* the inline-data parts of the response the call got
InlinePartsOf(resp) ==
    IF resp.kind = "candidates" /\ resp.candidates # <<>>
    THEN {p \in Range(Head(resp.candidates).parts) : p.inlineData}
    ELSE {}

\* C24: an Image Service operation returns image data taken from an
\* inline-data part of the response, or throws an Error; it throws when the
\* request is rejected and when the response has no candidates or no
\* inline-data part, and it never returns an empty or undefined result.
C24_ImageOrError ==
    /\ result.kind = "returned" =>
           /\ result.value \notin {"", "undefined"}
           /\ \E p \in InlinePartsOf(response) : p.data = result.value
    /\ (result.kind # "none" /\ InlinePartsOf(response) = {}) => result = Thrown
    /\ (result.kind # "none" /\ response.kind = "rejected") => result = Thrown

\* the initial load is over and no gallery operation is in flight
GalleryAtRest == Quiescent /\ loadGalleryPc = "done"

\* C25: view coherence: when every store operation succeeds, then once no
\* gallery operation is in flight the displayed list is what
\* getAllGalleryImages would return: the same records, newest first.
C25_ViewCoherent == GalleryAtRest => galleryImages = ListResult(records)

C25_Witness ==
    /\ GalleryAtRest
    /\ outputImage = ""
    /\ ~isLoading
    /\ ~error
    /\ Len(galleryImages) = 2
    /\ galleryImages[1].id = 2
    /\ galleryImages[2].id = 1
    /\ galleryImages[1].imageData # galleryImages[2].imageData

SubmitAwaits == \E i \in 1..Len(serviceCalls) : serviceCalls[i] \in ImageOps

\* C27: a run of handleSubmit that has finished (validation failure,
\* service error or success) has left isLoading false: isLoading is true
\* only while a run is at its await; and, the service call eventually
\* returning or throwing, isLoading is eventually false again.
C27_LoadingEnds ==
    /\ [](isLoading => SubmitAwaits)
    /\ (isLoading ~> ~isLoading)

C27_Witness ==
    /\ ~isLoading
    /\ ~SubmitAwaits
    /\ outputImage # ""
    /\ mode = "thumbnail"
    /\ ~error

\* the inputs of the current mode are incomplete
IncompleteInputs ==
    \/ mode = "generate" /\ prompt = ""
    \/ mode = "edit" /\ (prompt = "" \/ ~inputImage)
    \/ mode = "merge" /\ (prompt = "" \/ mergeImages < 2)
    \/ mode = "thumbnail" /\ ~(thumbnailBackground /\ thumbnailForeground)

\* C28: with the inputs of the current mode incomplete, handleSubmit calls
\* no Image Service operation, and what it does to the output is to leave
\* it null, with the error message set; a call it starts with complete
\* inputs is the operation of the mode.
C28_NoCallOnIncompleteInputs ==
    [][/\ (IncompleteInputs /\ ~SubmitAwaits) =>
              /\ ~SubmitAwaits'
              /\ ~isLoading'
              /\ (outputImage' # outputImage => (outputImage' = "" /\ error'))
       /\ (~SubmitAwaits /\ SubmitAwaits') =>
              serviceCalls' = Append(serviceCalls, ServiceOf(mode, referenceImage))]_vars

C28_Witness ==
    /\ IncompleteInputs
    /\ mode = "merge"
    /\ prompt = "p"
    /\ mergeImages = 1
    /\ thumbnailBackground
    /\ thumbnailForeground
    /\ inputImage
    /\ error
    /\ outputImage = ""
    /\ ~isLoading
    /\ serviceCalls = <<>>

\* the enhancement requests in flight
EnhancesAwaited ==
    Cardinality({i \in 1..Len(serviceCalls) : serviceCalls[i] = "enhancePrompt"})

\* C29: enhancement and submission exclude each other: isEnhancing and
\* isLoading are never both true, and at most one enhancement request is in
\* flight (none while a submission is).
C29_EnhanceSubmitExclusive ==
    /\ ~(isEnhancing /\ isLoading)
    /\ EnhancesAwaited <= 1
    /\ ~(EnhancesAwaited = 1 /\ SubmitAwaits)

C29_Witness ==
    /\ isEnhancing
    /\ EnhancesAwaited = 1
    /\ ~isLoading
    /\ outputImage # ""
    /\ mode = "edit"

\* C30: while a submission is in flight no output is available: isLoading
\* implies outputImage is null (so the Save button has nothing to add); and
\* outputImage becomes non-null only in the step in which an awaited Image
\* Service call returns, which also ends the loading.
C30_NoOutputWhileLoading ==
    /\ [](isLoading => outputImage = "")
    /\ [][(outputImage' # "" /\ outputImage' # outputImage) =>
             /\ SubmitAwaits
             /\ Len(serviceCalls') < Len(serviceCalls)
             /\ ~isLoading']_vars

C30_Witness ==
    /\ isLoading
    /\ outputImage = ""
    /\ serviceCalls = <<"generateWithReference">>
    /\ ~error

====
